---- MODULE Spec2Model ----
(***************************************************************************)
(* Model of setup_dev.py, the development-environment bootstrap script of  *)
(* AeroBeat Assembly.  The state is the part of the working tree the       *)
(* script reads or writes (which paths exist, which submodules git has     *)
(* registered, the text of project.godot), the part of the environment     *)
(* that decides what git answers, and the position of main().              *)
(*                                                                         *)
(* Scope: the paths the script creates are directories or absent, and      *)
(* project.godot is a readable regular file or absent, so no call raises.  *)
(* Text is a sequence of one-character strings.                            *)
(***************************************************************************)
EXTENDS Naturals, Sequences, FiniteSets

VARIABLES
    fs,          \* the paths that exist (os.path.exists)
    registered,  \* destination paths git has registered as submodules
    content,     \* the text of project.godot (<<>> while it is absent)
    srcAvail,    \* environment: can git clone the source meant for a destination
    pc,          \* the statement of main() that runs next
    second,      \* has main() been started a second time
    origin,      \* fs, registered and content before the first run of main()
    start,       \* fs, registered and content when the current run of main() began
    steps,       \* the functions main() has called in the current run, in order
    rets,        \* what each of them returned
    cmds,        \* the commands run_command was given by setup_submodules, with results
    report       \* the lines verify_structure printed: <<path, mark>>

vars == << fs, registered, content, srcAvail, pc, second, origin, start,
          steps, rets, cmds, report >>

----------------------------------------------------------------------------
(* Fixed data of the script *)

GitDir == ".git"

CoreDest == "addons/aerobeat-core"

MediapipeDest == "addons/aerobeat-input-mediapipe"

Submodules ==
    << << "../aerobeat-core", CoreDest >>,
       << "../aerobeat-input-mediapipe-python", MediapipeDest >> >>

Dests == { Submodules[i][2] : i \in 1..Len(Submodules) }

CoreFile == "addons/aerobeat-core/src/interfaces/input_provider.gd"

MediapipeFile == "addons/aerobeat-input-mediapipe/src/providers/mediapipe_provider.gd"

RequiredPaths == << CoreFile, MediapipeFile, "src", "scenes", "test" >>

Dirs == << "src", "scenes", "test/unit", "test/integration" >>

ProjectFile == "project.godot"

Marker ==
    << "[", "e", "d", "i", "t", "o", "r", "_", "p", "l", "u", "g", "i", "n", "s", "]" >>

PluginSection ==
    << "\n", "[", "e", "d", "i", "t", "o", "r", "_", "p", "l", "u",
       "g", "i", "n", "s", "]", "\n", "e", "n", "a", "b", "l", "e",
       "d", "=", "P", "a", "c", "k", "e", "d", "S", "t", "r", "i",
       "n", "g", "A", "r", "r", "a", "y", "(", "\"", "r", "e", "s",
       ":", "/", "/", "a", "d", "d", "o", "n", "s", "/", "a", "e",
       "r", "o", "b", "e", "a", "t", "-", "c", "o", "r", "e", "/",
       "p", "l", "u", "g", "i", "n", ".", "c", "f", "g", "\"", ",",
       " ", "\"", "r", "e", "s", ":", "/", "/", "a", "d", "d", "o",
       "n", "s", "/", "a", "e", "r", "o", "b", "e", "a", "t", "-",
       "i", "n", "p", "u", "t", "-", "m", "e", "d", "i", "a", "p",
       "i", "p", "e", "/", "p", "l", "u", "g", "i", "n", ".", "c",
       "f", "g", "\"", ")", "\n" >>

----------------------------------------------------------------------------
(* The filesystem *)

\* The tracked ancestors of a path: a path exists only if they do.
Ancestors(p) ==
    CASE p = "test/unit"        -> {"test"}
      [] p = "test/integration" -> {"test"}
      [] p = CoreFile           -> {CoreDest}
      [] p = MediapipeFile      -> {MediapipeDest}
      [] OTHER                  -> {}

\* The file verify_structure looks for inside a submodule's checkout.
CheckedFile(dest) == IF dest = CoreDest THEN CoreFile ELSE MediapipeFile

AllPaths ==
    { GitDir, CoreDest, MediapipeDest, CoreFile, MediapipeFile,
      "src", "scenes", "test", "test/unit", "test/integration", ProjectFile }

Closed(f) == \A p \in f : Ancestors(p) \subseteq f

\* os.path.exists(p)
Exists(f, p) == p \in f

\* Variant: os.mkdir(d), which creates the leaf alone.
MakedirsLeafOnly(f, d) == f \cup {d}

\* os.makedirs(d, exist_ok=True): the leaf and every missing ancestor.
Makedirs(f, d) == f \cup Ancestors(d) \cup {d}

\* "[editor_plugins]" in content: the needle occurs at some offset.
Contains(text, needle) ==
    \E i \in 1..(Len(text) + 1) :
        /\ i + Len(needle) - 1 <= Len(text)
        /\ SubSeq(text, i, i + Len(needle) - 1) = needle

----------------------------------------------------------------------------
(* git, as run_command sees it: a result and an effect on the working tree *)

\* git submodule add "<source>" "<dest>": clones the source into dest and
\* registers it; fails, changing nothing, when the source cannot be cloned
\* or dest is already in the index or in the way.
GitSubmoduleAdd(g, dest) ==
    IF srcAvail[dest] /\ dest \notin g.registered /\ dest \notin g.fs
    THEN [ ok |-> TRUE,
           fs |-> g.fs \cup {dest, CheckedFile(dest)},
           registered |-> g.registered \cup {dest} ]
    ELSE [ ok |-> FALSE, fs |-> g.fs, registered |-> g.registered ]

\* git submodule update --init --recursive: checks out every registered
\* submodule; fails, changing nothing, when one that is not checked out yet
\* cannot be cloned.
GitSubmoduleUpdate(g) ==
    IF \A d \in g.registered : CheckedFile(d) \in g.fs \/ srcAvail[d]
    THEN [ ok |-> TRUE,
           fs |-> g.fs \cup g.registered \cup { CheckedFile(d) : d \in g.registered },
           registered |-> g.registered ]
    ELSE [ ok |-> FALSE, fs |-> g.fs, registered |-> g.registered ]

----------------------------------------------------------------------------
(* The functions of the script *)

\* create_directories(): the filesystem after the loop over dirs[i..].
RECURSIVE CreateFrom(_, _)
CreateFrom(i, f) ==
    IF i > Len(Dirs) THEN f ELSE CreateFrom(i + 1, Makedirs(f, Dirs[i]))

CreateDirectoriesResult(f) == CreateFrom(1, f)

\* Variant: the loop goes on to the next submodule after a failed add.
RECURSIVE AddLoopContinues(_, _)
AddLoopContinues(i, s) ==
    IF i > Len(Submodules) THEN s
    ELSE LET dest == Submodules[i][2]
         IN  IF ~Exists(s.fs, dest)
             THEN LET r == GitSubmoduleAdd(s, dest)
                  IN  AddLoopContinues(i + 1,
                          [ fs |-> r.fs, registered |-> r.registered, ok |-> r.ok,
                            cmds |-> Append(s.cmds,
                                [ cmd |-> "add", dest |-> dest, ok |-> r.ok ]) ])
             ELSE AddLoopContinues(i + 1, s)

\* The for loop of setup_submodules from submodule i on; s carries the
\* working tree, the commands issued so far and whether the loop may go on.
RECURSIVE AddLoop(_, _)
AddLoop(i, s) ==
    IF i > Len(Submodules) THEN s
    ELSE LET dest == Submodules[i][2]
         IN  IF ~Exists(s.fs, dest)
             THEN LET r == GitSubmoduleAdd(s, dest)
                      t == [ fs |-> r.fs, registered |-> r.registered, ok |-> r.ok,
                             cmds |-> Append(s.cmds,
                                 [ cmd |-> "add", dest |-> dest, ok |-> r.ok ]) ]
                  IN  IF r.ok THEN AddLoop(i + 1, t) ELSE t
             ELSE AddLoop(i + 1, s)

\* setup_submodules(): the working tree it leaves, the commands it ran and
\* its return value.
SetupSubmodulesResult(f, reg) ==
    IF ~Exists(f, GitDir)
    THEN [ fs |-> f, registered |-> reg, ok |-> FALSE, cmds |-> << >> ]
    ELSE LET s == AddLoop(1, [ fs |-> f, registered |-> reg, ok |-> TRUE, cmds |-> << >> ])
         IN  IF ~s.ok THEN s
             ELSE LET u == GitSubmoduleUpdate(s)
                  IN  [ fs |-> u.fs, registered |-> u.registered, ok |-> u.ok,
                        cmds |-> Append(s.cmds,
                            [ cmd |-> "update", dest |-> "", ok |-> u.ok ]) ]

\* Variant: a missing path is created, as the printed "(will be created)" says.
VerifyCreatesMissing(f) ==
    [ fs |-> f \cup { RequiredPaths[i] : i \in 1..Len(RequiredPaths) },
      report |-> [ i \in 1..Len(RequiredPaths) |->
                     << RequiredPaths[i],
                        IF Exists(f, RequiredPaths[i]) THEN "check" ELSE "cross" >> ],
      ok |-> \A i \in 1..Len(RequiredPaths) : Exists(f, RequiredPaths[i]) ]

\* verify_structure(): the lines printed and the return value; the
\* filesystem is only read.
VerifyStructureResult(f) ==
    [ fs |-> f,
      report |-> [ i \in 1..Len(RequiredPaths) |->
                     << RequiredPaths[i],
                        IF Exists(f, RequiredPaths[i]) THEN "check" ELSE "cross" >> ],
      ok |-> \A i \in 1..Len(RequiredPaths) : Exists(f, RequiredPaths[i]) ]

\* Variant: the block is appended without looking for the marker.
UpdateWithoutMarkerCheck(f, text) ==
    IF ~Exists(f, ProjectFile)
    THEN [ fs |-> f, content |-> text, ok |-> FALSE ]
    ELSE [ fs |-> f, content |-> text \o PluginSection, ok |-> TRUE ]

\* Variant: the marker is looked for at the start of the file only.
UpdateMarkerAtStartOnly(f, text) ==
    IF ~Exists(f, ProjectFile)
    THEN [ fs |-> f, content |-> text, ok |-> FALSE ]
    ELSE IF Len(text) >= Len(Marker) /\ SubSeq(text, 1, Len(Marker)) = Marker
         THEN [ fs |-> f, content |-> text, ok |-> TRUE ]
         ELSE [ fs |-> f, content |-> text \o PluginSection, ok |-> TRUE ]

\* Variant: no existence check, so open(project_file, "a") creates the file.
UpdateCreatesFile(f, text) ==
    IF Contains(text, Marker)
    THEN [ fs |-> f, content |-> text, ok |-> TRUE ]
    ELSE [ fs |-> f \cup {ProjectFile}, content |-> text \o PluginSection, ok |-> TRUE ]

\* Variant: the block is written only when both plugin directories exist.
UpdateOnlyWithPlugins(f, text) ==
    IF ~Exists(f, ProjectFile)
    THEN [ fs |-> f, content |-> text, ok |-> FALSE ]
    ELSE IF Contains(text, Marker) \/ ~(Dests \subseteq f)
         THEN [ fs |-> f, content |-> text, ok |-> TRUE ]
         ELSE [ fs |-> f, content |-> text \o PluginSection, ok |-> TRUE ]

\* update_project_plugins(): the filesystem and text of project.godot it
\* leaves, and its return value.
UpdateProjectPluginsResult(f, text) ==
    IF ~Exists(f, ProjectFile)
    THEN [ fs |-> f, content |-> text, ok |-> FALSE ]
    ELSE IF Contains(text, Marker)
         THEN [ fs |-> f, content |-> text, ok |-> TRUE ]
         ELSE [ fs |-> f, content |-> text \o PluginSection, ok |-> TRUE ]

\* Variant: main() exits when setup_submodules reports a failure.
MainExitsOnFailure(step, ret) ==
    CASE step = "create_directories"     -> "setup_submodules"
      [] step = "setup_submodules"       ->
             IF ret = "False" THEN "exit" ELSE "verify_structure"
      [] step = "verify_structure"       -> "update_project_plugins"
      [] step = "update_project_plugins" -> "complete"

\* Variant: main() verifies the structure only when setup_submodules succeeded.
MainSkipsVerifyOnFailure(step, ret) ==
    CASE step = "create_directories"     -> "setup_submodules"
      [] step = "setup_submodules"       ->
             IF ret = "False" THEN "update_project_plugins" ELSE "verify_structure"
      [] step = "verify_structure"       -> "update_project_plugins"
      [] step = "update_project_plugins" -> "complete"

\* main(): the statement that follows a call, given what the call returned.
MainNext(step, ret) ==
    CASE step = "create_directories"     -> "setup_submodules"
      [] step = "setup_submodules"       -> "verify_structure"
      [] step = "verify_structure"       -> "update_project_plugins"
      [] step = "update_project_plugins" -> "complete"

MainOrder ==
    << "create_directories", "setup_submodules", "verify_structure",
       "update_project_plugins" >>

Str(b) == IF b THEN "True" ELSE "False"

NoRets == [ s \in { MainOrder[i] : i \in 1..Len(MainOrder) } |-> "-" ]

----------------------------------------------------------------------------
(* Starting states *)

MaxFragments == 2

\* "[editor]\n": a section header of project.godot that is not the marker.
OtherSection == << "[", "e", "d", "i", "t", "o", "r", "]", "\n" >>

Fragments == { OtherSection, Marker }

RECURSIVE Texts(_)
Texts(n) ==
    IF n = 0 THEN { << >> }
    ELSE Texts(n - 1) \cup { t \o x : t \in Texts(n - 1), x \in Fragments }

Init ==
    /\ fs \in { f \in SUBSET AllPaths : Closed(f) }
    /\ registered \in { r \in SUBSET Dests : r # {} => GitDir \in fs }
    /\ content \in IF ProjectFile \in fs THEN Texts(MaxFragments) ELSE { << >> }
    /\ srcAvail \in [ Dests -> BOOLEAN ]
    /\ pc = "create_directories"
    /\ second = FALSE
    /\ origin = [ fs |-> fs, registered |-> registered, content |-> content ]
    /\ start = origin
    /\ steps = << >>
    /\ rets = NoRets
    /\ cmds = << >>
    /\ report = << >>

----------------------------------------------------------------------------
(* The steps of main() *)

CreateDirectories ==
    /\ pc = "create_directories"
    /\ fs' = CreateDirectoriesResult(fs)
    /\ steps' = Append(steps, "create_directories")
    /\ rets' = [ rets EXCEPT !["create_directories"] = "None" ]
    /\ pc' = MainNext("create_directories", "None")
    /\ UNCHANGED << registered, content, srcAvail, second, origin, start, cmds, report >>

SetupSubmodules ==
    /\ pc = "setup_submodules"
    /\ LET r == SetupSubmodulesResult(fs, registered)
       IN  /\ fs' = r.fs
           /\ registered' = r.registered
           /\ cmds' = r.cmds
           /\ rets' = [ rets EXCEPT !["setup_submodules"] = Str(r.ok) ]
           /\ pc' = MainNext("setup_submodules", Str(r.ok))
    /\ steps' = Append(steps, "setup_submodules")
    /\ UNCHANGED << content, srcAvail, second, origin, start, report >>

VerifyStructure ==
    /\ pc = "verify_structure"
    /\ LET r == VerifyStructureResult(fs)
       IN  /\ fs' = r.fs
           /\ report' = r.report
           /\ rets' = [ rets EXCEPT !["verify_structure"] = Str(r.ok) ]
           /\ pc' = MainNext("verify_structure", Str(r.ok))
    /\ steps' = Append(steps, "verify_structure")
    /\ UNCHANGED << registered, content, srcAvail, second, origin, start, cmds >>

UpdateProjectPlugins ==
    /\ pc = "update_project_plugins"
    /\ LET r == UpdateProjectPluginsResult(fs, content)
       IN  /\ fs' = r.fs
           /\ content' = r.content
           /\ rets' = [ rets EXCEPT !["update_project_plugins"] = Str(r.ok) ]
           /\ pc' = MainNext("update_project_plugins", Str(r.ok))
    /\ steps' = Append(steps, "update_project_plugins")
    /\ UNCHANGED << registered, srcAvail, second, origin, start, cmds, report >>

\* The closing prints of main(): "=== Setup complete ===" and the next steps.
Complete ==
    /\ pc = "complete"
    /\ pc' = "done"
    /\ UNCHANGED << fs, registered, content, srcAvail, second, origin, start, steps, rets,
                    cmds, report >>

\* The script is started again on the tree the first run left.
RunAgain ==
    /\ pc = "done"
    /\ ~second
    /\ second' = TRUE
    /\ pc' = "create_directories"
    /\ start' = [ fs |-> fs, registered |-> registered, content |-> content ]
    /\ steps' = << >>
    /\ rets' = NoRets
    /\ cmds' = << >>
    /\ report' = << >>
    /\ UNCHANGED << fs, registered, content, srcAvail, origin >>

Next ==
    \/ CreateDirectories
    \/ SetupSubmodules
    \/ VerifyStructure
    \/ UpdateProjectPlugins
    \/ Complete
    \/ RunAgain

Spec == Init /\ [][Next]_vars

\* The runs that begin with none of the four directories made yet.  Once
\* create_directories has returned all four exist, so what follows
\* setup_submodules is the same from every other starting state.
InitBare == Init /\ fs \cap { "src", "scenes", "test", "test/unit", "test/integration" } = {}

\* main() is straight-line code: a run that has started is carried through.
FairSpec == InitBare /\ [][Next]_vars /\ WF_vars(Next)

----------------------------------------------------------------------------
(* Properties *)

Returned(step) == rets[step] # "-"

IsPrefix(s, t) == Len(s) <= Len(t) /\ SubSeq(t, 1, Len(s)) = s

AddOf(d, ok) == [ cmd |-> "add", dest |-> d, ok |-> ok ]

\* C1: a second run of main() leaves the existing paths, the registered
\* submodules and the text of project.godot as the first run left them; the
\* plugin block is not appended again, and no "git submodule add" is issued
\* for a destination that already exists.
C1_SecondRunChangesNothing ==
    /\ (second /\ pc = "done") =>
           /\ fs = start.fs
           /\ registered = start.registered
           /\ content = start.content
    /\ \A i \in 1..Len(cmds) :
           cmds[i].cmd = "add" => ~Exists(start.fs, cmds[i].dest)

C1_Witness ==
    /\ second /\ pc = "done"
    /\ origin.registered = {} /\ registered = Dests
    /\ "test" \notin origin.fs /\ "test/unit" \in fs
    /\ ~Contains(origin.content, Marker)
    /\ content = origin.content \o PluginSection
    /\ cmds = << [ cmd |-> "update", dest |-> "", ok |-> TRUE ] >>

\* C2: update_project_plugins appends the plugin block exactly when
\* project.godot exists and its text does not contain "[editor_plugins]";
\* then the new text is the old text followed by the block and the result is
\* True.  When the marker occurs anywhere in the text, the text is left as it
\* is and the result is True.
C2_AppendsExactlyWithoutMarker ==
    [][ pc = "update_project_plugins" =>
          LET hasMarker ==
                  \E i \in 1..Len(content) :
                      /\ i + Len(Marker) - 1 <= Len(content)
                      /\ \A k \in 1..Len(Marker) : content[i + k - 1] = Marker[k]
          IN  /\ (Exists(fs, ProjectFile) /\ ~hasMarker) =>
                     /\ content' = content \o PluginSection
                     /\ rets'["update_project_plugins"] = "True"
              /\ (Exists(fs, ProjectFile) /\ hasMarker) =>
                     /\ content' = content
                     /\ rets'["update_project_plugins"] = "True"
              /\ ~Exists(fs, ProjectFile) => content' = content ]_vars

C2_Witness ==
    /\ pc = "complete"
    /\ Exists(start.fs, ProjectFile)
    /\ start.content = OtherSection
    /\ content = OtherSection \o PluginSection
    /\ rets["update_project_plugins"] = "True"

\* C3: once setup_submodules has returned False, main() still calls
\* verify_structure, then update_project_plugins, and reaches the end of the
\* run.
C3_FailureDoesNotStopRun ==
    (rets["setup_submodules"] = "False")
        ~> (pc = "done" /\ steps = MainOrder /\ rets["setup_submodules"] = "False")

C3_Witness ==
    /\ pc = "done"
    /\ steps = MainOrder
    /\ rets["setup_submodules"] = "False"
    /\ Len(cmds) = 2
    /\ cmds[1] = AddOf(CoreDest, TRUE)
    /\ cmds[2] = [ cmd |-> "update", dest |-> "", ok |-> FALSE ]

\* C4: whenever setup_submodules returns True, both destinations are
\* registered as submodules.
C4_TrueMeansBothRegistered ==
    rets["setup_submodules"] = "True" => Dests \subseteq registered

\* C5: create_directories leaves src, scenes, test/unit and test/integration
\* (and their parent test) existing whichever of them existed before, and
\* removes or alters nothing that existed before.
C5_CreateDirectories ==
    pc = "setup_submodules" =>
        /\ { Dirs[i] : i \in 1..Len(Dirs) } \cup {"test"} \subseteq fs
        /\ start.fs \subseteq fs
        /\ registered = start.registered
        /\ content = start.content

C5_Witness ==
    /\ pc = "setup_submodules"
    /\ "src" \in start.fs
    /\ "scenes" \notin start.fs /\ "scenes" \in fs
    /\ "test" \notin start.fs /\ "test" \in fs
    /\ "test/integration" \in fs

\* C6: verify_structure reports on each of the five required paths once, in
\* order, with a checkmark exactly for the paths that exist; it returns True
\* exactly when all five exist; and it changes nothing on the filesystem.
C6_VerifyOnlyReports ==
    [][ pc = "verify_structure" =>
          /\ fs' = fs /\ registered' = registered /\ content' = content
          /\ Len(report') = 5
          /\ \A i \in 1..5 :
                 /\ report'[i][1] = RequiredPaths[i]
                 /\ (report'[i][2] = "check") <=> (RequiredPaths[i] \in fs)
                 /\ (report'[i][2] = "cross") <=> (RequiredPaths[i] \notin fs)
          /\ (rets'["verify_structure"] = "True")
                 <=> (\A i \in 1..5 : RequiredPaths[i] \in fs)
          /\ rets'["verify_structure"] \in {"True", "False"} ]_vars

C6_Witness ==
    /\ pc = "update_project_plugins"
    /\ rets["verify_structure"] = "False"
    /\ report[1] = << CoreFile, "cross" >>
    /\ report[2] = << MediapipeFile, "check" >>
    /\ CoreFile \notin fs

\* C7: every run of main() calls create_directories, setup_submodules,
\* verify_structure and update_project_plugins in this order, each once,
\* whatever they return.
C7_FixedOrder ==
    /\ IsPrefix(steps, MainOrder)
    /\ Len(steps) < Len(MainOrder) => pc = MainOrder[Len(steps) + 1]
    /\ Len(steps) = Len(MainOrder) => pc \in {"complete", "done"}

C7_Witness ==
    /\ pc = "done"
    /\ steps = MainOrder
    /\ rets["setup_submodules"] = "False"
    /\ rets["verify_structure"] = "False"
    /\ rets["update_project_plugins"] = "False"

\* C8: setup_submodules issues no git command after the first failure:
\* without .git it runs none and returns False; a failed command is the last
\* one and the result is False; "git submodule update" is run only after the
\* add of every destination that did not exist has succeeded.
C8_StopsAtFirstFailure ==
    Returned("setup_submodules") =>
        /\ ~Exists(start.fs, GitDir) =>
               cmds = << >> /\ rets["setup_submodules"] = "False"
        /\ \A i \in 1..Len(cmds) :
               ~cmds[i].ok => i = Len(cmds) /\ rets["setup_submodules"] = "False"
        /\ \A i \in 1..Len(cmds) :
               cmds[i].cmd = "update" =>
                   /\ i = Len(cmds)
                   /\ \A d \in Dests :
                          \/ Exists(start.fs, d)
                          \/ \E j \in 1..(i - 1) : cmds[j] = AddOf(d, TRUE)

C8_Witness ==
    /\ Returned("setup_submodules")
    /\ rets["setup_submodules"] = "False"
    /\ cmds = << AddOf(CoreDest, FALSE) >>
    /\ ~Exists(fs, MediapipeDest)
    /\ srcAvail[MediapipeDest]

\* C9: when project.godot does not exist, update_project_plugins returns
\* False, does not create it and changes no other path.
C9_MissingProjectFile ==
    [][ (pc = "update_project_plugins" /\ ~Exists(fs, ProjectFile)) =>
          /\ rets'["update_project_plugins"] = "False"
          /\ fs' = fs
          /\ content' = content ]_vars

C9_Witness ==
    /\ pc = "complete"
    /\ rets["update_project_plugins"] = "False"
    /\ ~Exists(fs, ProjectFile)

\* C10: whether the plugin block ends up in project.godot after a run of
\* main() is decided by the state project.godot had when the run began, and
\* by nothing the submodule step did.
C10_PluginsIndependentOfSubmodules ==
    pc = "done" =>
        /\ Exists(fs, ProjectFile) <=> Exists(start.fs, ProjectFile)
        /\ content =
               IF Exists(start.fs, ProjectFile) /\ ~Contains(start.content, Marker)
               THEN start.content \o PluginSection
               ELSE start.content

C10_Witness ==
    /\ pc = "done"
    /\ rets["setup_submodules"] = "False"
    /\ Dests \cap fs = {}
    /\ content = start.content \o PluginSection

====
